---- MODULE Spec2Model ----
(***************************************************************************)
(* State-machine model of the segment allocator PhysicalMemorySimulator    *)
(* (src/src/allocator/memory_manager.cpp) as driven by the command layer   *)
(* (src/src/command_processor.cpp), and of the cache simulator             *)
(* (src/src/cache/cache_simulator.cpp): one CacheLevel on its own, and the *)
(* two-level MultiLevelCacheSimulator.                                     *)
(*                                                                         *)
(* Five specifications share the module; each one moves its own group of   *)
(* variables and leaves the other groups at their initial values:          *)
(*   Spec           the allocator            (allocator_vars)              *)
(*   SpecCoalesce   the allocator with deallocate taken one loop iteration *)
(*                  at a time                (allocator_vars,              *)
(*                                            coalesce_vars)               *)
(*   SpecLevel      one CacheLevel           (level_vars)                  *)
(*   SpecHierarchy  MultiLevelCacheSimulator (hierarchy_vars)              *)
(*   SpecSession    run_interactive_session  (session_vars)                *)
(*                                                                         *)
(* Conventions.                                                            *)
(*  - heap_segments is a sequence; the C++ vector index i is the sequence  *)
(*    index i + 1.  The search functions return NoIndex (-1) for "none".   *)
(*  - size_t is modelled at a reduced width: its values are 0..SIZE_MAX.   *)
(*    No size computation of the allocator can wrap (every base + size is  *)
(*    at most the pool capacity), so the width only matters through the    *)
(*    SIZE_MAX sentinel of the best-fit search.                            *)
(*  - call is the most recent public call with its argument and its return *)
(*    value, prev_call the one before it; before_alloc is the segment list *)
(*    as it was when the most recent allocate call started; issued is the  *)
(*    sequence of owner ids returned since the last initialize / reset.    *)
(***************************************************************************)
EXTENDS Integers, Sequences, FiniteSets

VARIABLES heap_segments, total_memory_capacity, next_process_identifier,
          current_strategy, performance_stats,
          call, prev_call, before_alloc, issued

\* One CacheLevel object, the trace of the calls made on it, and a reference
\* direct-mapped cache without a queue that is fed the same calls.
VARIABLES level, level_trace, reference_blocks, reference_trace

\* The MultiLevelCacheSimulator object: its two owned pointers and its flag;
\* the process it lives in (running or aborted), whether a CacheLevel has
\* been deleted twice, and the most recent public call.
VARIABLES l1_cache, l2_cache, cache_hierarchy_initialized,
          process_state, double_deleted, hierarchy_call

allocator_vars == <<heap_segments, total_memory_capacity, next_process_identifier,
                    current_strategy, performance_stats,
                    call, prev_call, before_alloc, issued>>

level_vars == <<level, level_trace, reference_blocks, reference_trace>>

hierarchy_vars == <<l1_cache, l2_cache, cache_hierarchy_initialized,
                    process_state, double_deleted, hierarchy_call>>

\* deallocate_memory_block taken one loop iteration at a time: where the call
\* stands ("idle" between calls, "merging" inside the for loop of
\* merge_adjacent_free_segments), the loop variable i and the argument.
VARIABLES deallocate_pc, merge_index, deallocate_pid

coalesce_vars == <<deallocate_pc, merge_index, deallocate_pid>>

\* run_interactive_session: the flag is_running, the local input_line, the
\* lines std::cin still holds (unread_lines), whether the last of them ends
\* with a newline, whether std::cin is good(), and the position in the loop.
VARIABLES is_running, input_line, unread_lines, final_newline, cin_good,
          session_pc

session_vars == <<is_running, input_line, unread_lines, final_newline, cin_good,
                  session_pc>>

vars == <<allocator_vars, level_vars, hierarchy_vars, coalesce_vars, session_vars>>

\* A pointer to no object.
nullptr == [pointer |-> "nullptr"]

\* Largest value of the (reduced-width) size_t.
SIZE_MAX == 4

\* Allocation attempts allowed between two initialize / reset calls.
MaxAttempts == 4

NoIndex == -1

NoPid == -1

AllocationStrategy == {"FIRST_FIT", "BEST_FIT", "WORST_FIT"}

\* Values the command layer can pass: init rejects 0, alloc passes any
\* size_t, free passes any int.
PoolSizes == 1..SIZE_MAX

RequestSizes == 0..SIZE_MAX

ProcessIds == -1..(MaxAttempts + 1)

MemorySegment(addr, size, available, pid) ==
    [base_address |-> addr, segment_size |-> size,
     is_available |-> available, process_id |-> pid]

MemoryStatistics ==
    [total_allocation_attempts |-> 0, successful_allocations |-> 0,
     failed_allocations |-> 0]

record_allocation_attempt(stats) ==
    [stats EXCEPT !.total_allocation_attempts = @ + 1]

record_successful_allocation(stats) ==
    [stats EXCEPT !.successful_allocations = @ + 1]

\* record_failed_allocation that counts nothing.
record_failed_allocation_uncounted(stats) == stats

record_failed_allocation(stats) ==
    [stats EXCEPT !.failed_allocations = @ + 1]

can_accommodate(segment, required_size) ==
    segment.is_available /\ segment.segment_size >= required_size

\* ---- placement search --------------------------------------------------

RECURSIVE first_fit_scan(_, _, _)
first_fit_scan(segs, required_size, i) ==
    IF i > Len(segs) THEN NoIndex
    ELSE IF can_accommodate(segs[i], required_size) THEN i
    ELSE first_fit_scan(segs, required_size, i + 1)

find_suitable_segment_first_fit(segs, required_size) ==
    first_fit_scan(segs, required_size, 1)

RECURSIVE best_fit_scan(_, _, _, _, _)
best_fit_scan(segs, required_size, i, best_index, smallest_suitable_size) ==
    IF i > Len(segs) THEN best_index
    ELSE IF can_accommodate(segs[i], required_size)
            /\ segs[i].segment_size < smallest_suitable_size
         THEN best_fit_scan(segs, required_size, i + 1, i, segs[i].segment_size)
         ELSE best_fit_scan(segs, required_size, i + 1, best_index,
                            smallest_suitable_size)

find_suitable_segment_best_fit(segs, required_size) ==
    best_fit_scan(segs, required_size, 1, NoIndex, SIZE_MAX)

RECURSIVE worst_fit_scan(_, _, _, _, _)
worst_fit_scan(segs, required_size, i, worst_index, largest_suitable_size) ==
    IF i > Len(segs) THEN worst_index
    ELSE IF can_accommodate(segs[i], required_size)
            /\ segs[i].segment_size > largest_suitable_size
         THEN worst_fit_scan(segs, required_size, i + 1, i, segs[i].segment_size)
         ELSE worst_fit_scan(segs, required_size, i + 1, worst_index,
                             largest_suitable_size)

find_suitable_segment_worst_fit(segs, required_size) ==
    worst_fit_scan(segs, required_size, 1, NoIndex, 0)

\* The switch on current_strategy in allocate_memory_block.
find_suitable_segment(strategy, segs, required_size) ==
    CASE strategy = "FIRST_FIT" -> find_suitable_segment_first_fit(segs, required_size)
      [] strategy = "BEST_FIT"  -> find_suitable_segment_best_fit(segs, required_size)
      [] strategy = "WORST_FIT" -> find_suitable_segment_worst_fit(segs, required_size)

\* ---- splitting and coalescing -------------------------------------------

InsertAt(segs, i, seg) ==
    SubSeq(segs, 1, i - 1) \o <<seg>> \o SubSeq(segs, i, Len(segs))

EraseAt(segs, i) ==
    SubSeq(segs, 1, i - 1) \o SubSeq(segs, i + 1, Len(segs))

\* split_memory_segment with the remainder placed at the target's own base.
split_memory_segment_same_base(segs, segment_index, allocation_size) ==
    LET target_segment == segs[segment_index] IN
    IF target_segment.segment_size > allocation_size
    THEN LET remaining_size == target_segment.segment_size - allocation_size
             shrunk == [segs EXCEPT ![segment_index].segment_size = allocation_size]
         IN InsertAt(shrunk, segment_index + 1,
                     MemorySegment(target_segment.base_address, remaining_size,
                                   TRUE, NoPid))
    ELSE segs

\* split_memory_segment with the remainder inserted before the target.
split_memory_segment_remainder_first(segs, segment_index, allocation_size) ==
    LET target_segment == segs[segment_index] IN
    IF target_segment.segment_size > allocation_size
    THEN LET remaining_size == target_segment.segment_size - allocation_size
             moved == [segs EXCEPT ![segment_index].segment_size = allocation_size,
                                   ![segment_index].base_address =
                                       @ + remaining_size]
         IN InsertAt(moved, segment_index,
                     MemorySegment(target_segment.base_address, remaining_size,
                                   TRUE, NoPid))
    ELSE segs

split_memory_segment(segs, segment_index, allocation_size) ==
    LET target_segment == segs[segment_index] IN
    IF target_segment.segment_size > allocation_size
    THEN LET remaining_size == target_segment.segment_size - allocation_size
             new_segment_address == target_segment.base_address + allocation_size
             shrunk == [segs EXCEPT ![segment_index].segment_size = allocation_size]
         IN InsertAt(shrunk, segment_index + 1,
                     MemorySegment(new_segment_address, remaining_size, TRUE, NoPid))
    ELSE segs

\* merge_with_next_segment without the erase of the next segment.
merge_with_next_segment_without_erase(segs, current_index) ==
    LET current == segs[current_index]
        next == segs[current_index + 1]
    IN IF current.base_address + current.segment_size = next.base_address
       THEN [segs EXCEPT ![current_index].segment_size = @ + next.segment_size]
       ELSE segs

merge_with_next_segment(segs, current_index) ==
    LET current == segs[current_index]
        next == segs[current_index + 1]
    IN IF current.base_address + current.segment_size = next.base_address
       THEN EraseAt([segs EXCEPT ![current_index].segment_size =
                                     @ + next.segment_size],
                    current_index + 1)
       ELSE segs

\* The loop without the "--i": after a merge it moves on to the next index.
RECURSIVE merge_scan_no_recheck(_, _)
merge_scan_no_recheck(segs, i) ==
    IF i >= Len(segs) THEN segs
    ELSE IF segs[i].is_available /\ segs[i + 1].is_available
         THEN merge_scan_no_recheck(merge_with_next_segment(segs, i), i + 1)
         ELSE merge_scan_no_recheck(segs, i + 1)

\* The for loop of merge_adjacent_free_segments at loop variable i
\* (sequence index): after a merge the same index is examined again.
RECURSIVE merge_scan(_, _)
merge_scan(segs, i) ==
    IF i >= Len(segs) THEN segs
    ELSE IF segs[i].is_available /\ segs[i + 1].is_available
         THEN merge_scan(merge_with_next_segment(segs, i), i)
         ELSE merge_scan(segs, i + 1)

\* deallocate_memory_block without its coalescing pass.
merge_adjacent_free_segments_skipped(segs) == segs

merge_adjacent_free_segments(segs) == merge_scan(segs, 1)

\* ---- pieces of allocate_memory_block and deallocate_memory_block ---------

\* "if (requested_size == 0)" without the test.
rejects_request_never(requested_size) == FALSE

rejects_request(requested_size) == requested_size = 0

\* "++next_process_identifier" in place of "next_process_identifier++".
take_next_identifier_pre_increment(identifier) ==
    [assigned_pid |-> identifier + 1, next |-> identifier + 1]

\* The identifier is read but the counter is not advanced.
take_next_identifier_no_advance(identifier) ==
    [assigned_pid |-> identifier, next |-> identifier]

\* "int assigned_pid = next_process_identifier++;"
take_next_identifier(identifier) ==
    [assigned_pid |-> identifier, next |-> identifier + 1]

\* The owner test of the range-for without "!segment.is_available".
owns_ignoring_availability(segment, process_id) ==
    segment.process_id = process_id

owns(segment, process_id) ==
    ~segment.is_available /\ segment.process_id = process_id

\* The range-for of deallocate_memory_block: the first matching segment.
RECURSIVE find_owner(_, _, _)
find_owner(segs, process_id, i) ==
    IF i > Len(segs) THEN NoIndex
    ELSE IF owns(segs[i], process_id) THEN i
    ELSE find_owner(segs, process_id, i + 1)

\* ---- state ------------------------------------------------------------

NoCall == [op |-> "none", arg |-> 0, ret |-> 0]

\* PhysicalMemorySimulator::PhysicalMemorySimulator
AllocatorInit ==
    /\ heap_segments = <<>>
    /\ total_memory_capacity = 0
    /\ next_process_identifier = 1
    /\ current_strategy = "FIRST_FIT"
    /\ performance_stats = MemoryStatistics
    /\ call = NoCall
    /\ prev_call = NoCall
    /\ before_alloc = <<>>
    /\ issued = <<>>

\* No CacheLevel has been constructed on its own.
LevelIdle ==
    /\ level = nullptr
    /\ level_trace = <<>>
    /\ reference_blocks = <<>>
    /\ reference_trace = <<>>

\* MultiLevelCacheSimulator::MultiLevelCacheSimulator
HierarchyInit ==
    /\ l1_cache = nullptr
    /\ l2_cache = nullptr
    /\ cache_hierarchy_initialized = FALSE
    /\ process_state = "running"
    /\ double_deleted = FALSE
    /\ hierarchy_call = NoCall

\* No deallocate call is in progress.
CoalesceIdle ==
    /\ deallocate_pc = "idle"
    /\ merge_index = 0
    /\ deallocate_pid = NoPid

\* CommandLineProcessor::CommandLineProcessor; run_interactive_session has
\* not been entered and nothing has been read.
SessionIdle ==
    /\ is_running = FALSE
    /\ input_line = ""
    /\ unread_lines = <<>>
    /\ final_newline = TRUE
    /\ cin_good = TRUE
    /\ session_pc = "not_started"

Init == AllocatorInit /\ LevelIdle /\ HierarchyInit /\ CoalesceIdle /\ SessionIdle

\* initialize_memory_pool without "next_process_identifier = 1".
initialize_memory_pool_keeps_identifier(total_size) ==
    /\ total_memory_capacity' = total_size
    /\ heap_segments' = <<MemorySegment(0, total_size, TRUE, NoPid)>>
    /\ performance_stats' = MemoryStatistics
    /\ call' = [op |-> "initialize", arg |-> total_size, ret |-> 0]
    /\ prev_call' = call
    /\ issued' = <<>>
    /\ UNCHANGED <<next_process_identifier, current_strategy, before_alloc>>
    /\ UNCHANGED <<level_vars, hierarchy_vars, coalesce_vars, session_vars>>

initialize_memory_pool(total_size) ==
    /\ total_memory_capacity' = total_size
    /\ heap_segments' = <<MemorySegment(0, total_size, TRUE, NoPid)>>
    /\ next_process_identifier' = 1
    /\ performance_stats' = MemoryStatistics
    /\ call' = [op |-> "initialize", arg |-> total_size, ret |-> 0]
    /\ prev_call' = call
    /\ issued' = <<>>
    /\ UNCHANGED <<current_strategy, before_alloc>>
    /\ UNCHANGED <<level_vars, hierarchy_vars, coalesce_vars, session_vars>>

set_allocation_strategy(strategy) ==
    /\ current_strategy' = strategy
    /\ call' = [op |-> "set_strategy", arg |-> strategy, ret |-> 0]
    /\ prev_call' = call
    /\ UNCHANGED <<heap_segments, total_memory_capacity, next_process_identifier,
                   performance_stats, before_alloc, issued>>
    /\ UNCHANGED <<level_vars, hierarchy_vars, coalesce_vars, session_vars>>

allocate_memory_block(requested_size) ==
    LET attempted == record_allocation_attempt(performance_stats)
        segment_index == find_suitable_segment(current_strategy, heap_segments,
                                               requested_size)
        taken == take_next_identifier(next_process_identifier)
        assigned_pid == taken.assigned_pid
        split == split_memory_segment(heap_segments, segment_index, requested_size)
    IN
    /\ performance_stats.total_allocation_attempts < MaxAttempts
    /\ prev_call' = call
    /\ before_alloc' = heap_segments
    /\ UNCHANGED <<total_memory_capacity, current_strategy>>
    /\ UNCHANGED <<level_vars, hierarchy_vars, coalesce_vars, session_vars>>
    /\ IF rejects_request(requested_size)
       THEN /\ performance_stats' = record_failed_allocation(attempted)
            /\ call' = [op |-> "allocate", arg |-> requested_size, ret |-> -1]
            /\ UNCHANGED <<heap_segments, next_process_identifier, issued>>
       ELSE IF segment_index = NoIndex
       THEN /\ performance_stats' = record_failed_allocation(attempted)
            /\ call' = [op |-> "allocate", arg |-> requested_size, ret |-> -1]
            /\ UNCHANGED <<heap_segments, next_process_identifier, issued>>
       ELSE /\ next_process_identifier' = taken.next
            /\ heap_segments' =
                   [split EXCEPT ![segment_index].is_available = FALSE,
                                 ![segment_index].process_id = assigned_pid]
            /\ performance_stats' = record_successful_allocation(attempted)
            /\ call' = [op |-> "allocate", arg |-> requested_size,
                        ret |-> assigned_pid]
            /\ issued' = Append(issued, assigned_pid)

deallocate_memory_block(process_id) ==
    LET found == find_owner(heap_segments, process_id, 1) IN
    /\ prev_call' = call
    /\ UNCHANGED <<total_memory_capacity, next_process_identifier,
                   current_strategy, performance_stats, before_alloc, issued>>
    /\ UNCHANGED <<level_vars, hierarchy_vars, coalesce_vars, session_vars>>
    /\ IF found # NoIndex
       THEN /\ heap_segments' = merge_adjacent_free_segments(
                   [heap_segments EXCEPT ![found].is_available = TRUE,
                                         ![found].process_id = NoPid])
            /\ call' = [op |-> "deallocate", arg |-> process_id, ret |-> TRUE]
       ELSE /\ call' = [op |-> "deallocate", arg |-> process_id, ret |-> FALSE]
            /\ UNCHANGED heap_segments

reset_simulator ==
    /\ heap_segments' = <<>>
    /\ total_memory_capacity' = 0
    /\ next_process_identifier' = 1
    /\ performance_stats' = MemoryStatistics
    /\ current_strategy' = "FIRST_FIT"
    /\ call' = [op |-> "reset", arg |-> 0, ret |-> 0]
    /\ prev_call' = call
    /\ issued' = <<>>
    /\ UNCHANGED before_alloc
    /\ UNCHANGED <<level_vars, hierarchy_vars, coalesce_vars, session_vars>>

Next ==
    \/ \E total_size \in PoolSizes : initialize_memory_pool(total_size)
    \/ \E strategy \in AllocationStrategy : set_allocation_strategy(strategy)
    \/ \E requested_size \in RequestSizes : allocate_memory_block(requested_size)
    \/ \E process_id \in ProcessIds : deallocate_memory_block(process_id)
    \/ reset_simulator

Spec == Init /\ [][Next]_vars

\* ---- deallocate_memory_block, one loop iteration per step ----------------

\* The call up to the entry of the for loop of merge_adjacent_free_segments:
\* the range-for finds the owner and marks its segment free, or finds none
\* and the call returns false.
deallocate_begin(process_id) ==
    LET found == find_owner(heap_segments, process_id, 1) IN
    /\ deallocate_pc = "idle"
    /\ UNCHANGED <<total_memory_capacity, next_process_identifier,
                   current_strategy, performance_stats, before_alloc, issued>>
    /\ UNCHANGED <<level_vars, hierarchy_vars, session_vars>>
    /\ IF found # NoIndex
       THEN /\ heap_segments' = [heap_segments EXCEPT ![found].is_available = TRUE,
                                                      ![found].process_id = NoPid]
            /\ deallocate_pc' = "merging"
            /\ merge_index' = 0
            /\ deallocate_pid' = process_id
            /\ UNCHANGED <<call, prev_call>>
       ELSE /\ call' = [op |-> "deallocate", arg |-> process_id, ret |-> FALSE]
            /\ prev_call' = call
            /\ UNCHANGED <<heap_segments, coalesce_vars>>

\* One iteration of the for loop: the test "i < size - 1", the body and the
\* "++i"; merge_index is the int i, the sequence index is merge_index + 1.
merge_iteration ==
    /\ deallocate_pc = "merging"
    /\ merge_index < Len(heap_segments) - 1
    /\ IF heap_segments[merge_index + 1].is_available
          /\ heap_segments[merge_index + 2].is_available
       THEN /\ heap_segments' = merge_with_next_segment(heap_segments,
                                                        merge_index + 1)
            /\ merge_index' = (merge_index - 1) + 1
       ELSE /\ merge_index' = merge_index + 1
            /\ UNCHANGED heap_segments
    /\ UNCHANGED <<total_memory_capacity, next_process_identifier,
                   current_strategy, performance_stats, call, prev_call,
                   before_alloc, issued, deallocate_pc, deallocate_pid>>
    /\ UNCHANGED <<level_vars, hierarchy_vars, session_vars>>

\* The loop test fails: merge_adjacent_free_segments returns and
\* deallocate_memory_block returns true.
deallocate_return ==
    /\ deallocate_pc = "merging"
    /\ ~(merge_index < Len(heap_segments) - 1)
    /\ call' = [op |-> "deallocate", arg |-> deallocate_pid, ret |-> TRUE]
    /\ prev_call' = call
    /\ deallocate_pc' = "idle"
    /\ merge_index' = 0
    /\ deallocate_pid' = NoPid
    /\ UNCHANGED <<heap_segments, total_memory_capacity, next_process_identifier,
                   current_strategy, performance_stats, before_alloc, issued>>
    /\ UNCHANGED <<level_vars, hierarchy_vars, session_vars>>

\* The allocator with deallocate taken step by step; the other calls are
\* made between two deallocate calls, never inside one (one thread).
CoalesceNext ==
    \/ deallocate_pc = "idle"
         /\ \E total_size \in PoolSizes : initialize_memory_pool(total_size)
    \/ deallocate_pc = "idle"
         /\ \E requested_size \in RequestSizes : allocate_memory_block(requested_size)
    \/ \E process_id \in ProcessIds : deallocate_begin(process_id)
    \/ merge_iteration
    \/ deallocate_return

\* A call that has entered the loop keeps executing: the loop iterations and
\* the return are sequential code of one thread, which runs on.
SpecCoalesce ==
    Init /\ [][CoalesceNext]_vars
         /\ WF_vars(merge_iteration) /\ WF_vars(deallocate_return)

\* ======================================================================
\* CacheLevel (src/src/cache/cache_simulator.cpp)
\* ======================================================================

\* Cache sizes and block sizes a CacheLevel is constructed with, addresses
\* it is accessed with, and accesses made on one CacheLevel object.
MaxCacheSize == 4

MaxBlockSize == 2

MaxAddress == 7

MaxLevelAccesses == 5

Addresses == 0..MaxAddress

\* CacheBlock::CacheBlock
CacheBlock == [valid |-> FALSE, tag |-> 0, data_address |-> 0]

\* CacheBlock::invalidate that clears the valid bit only.
invalidate_valid_only(block) == [block EXCEPT !.valid = FALSE]

\* CacheBlock::invalidate
invalidate(block) ==
    [block EXCEPT !.valid = FALSE, !.tag = 0, !.data_address = 0]

\* CacheMetrics::CacheMetrics
CacheMetrics == [total_accesses |-> 0, cache_hits |-> 0, cache_misses |-> 0]

record_hit(metrics) ==
    [metrics EXCEPT !.total_accesses = @ + 1, !.cache_hits = @ + 1]

\* record_miss that leaves total_accesses as it is.
record_miss_without_total(metrics) ==
    [metrics EXCEPT !.cache_misses = @ + 1]

record_miss(metrics) ==
    [metrics EXCEPT !.total_accesses = @ + 1, !.cache_misses = @ + 1]

\* The two throw statements of the CacheLevel constructor.
constructor_throws(cache_size, block_size) ==
    IF block_size = 0 THEN TRUE ELSE (cache_size \div block_size) = 0

\* The object a CacheLevel constructor that does not throw leaves; the
\* vector cache_blocks is indexed from 0 as in the source.
CacheLevel(cache_size, block_size) ==
    [cache_size_bytes |-> cache_size,
     block_size_bytes |-> block_size,
     number_of_blocks |-> cache_size \div block_size,
     cache_blocks |-> [i \in 0..((cache_size \div block_size) - 1) |-> CacheBlock],
     fifo_queue |-> <<>>,
     performance_metrics |-> CacheMetrics]

\* calculate_block_index without the division by the block size.
calculate_block_index_of_address(lvl, memory_address) ==
    memory_address % lvl.number_of_blocks

calculate_block_index(lvl, memory_address) ==
    (memory_address \div lvl.block_size_bytes) % lvl.number_of_blocks

extract_tag(lvl, memory_address) ==
    memory_address \div (lvl.block_size_bytes * lvl.number_of_blocks)

evict_oldest_block(lvl) ==
    IF lvl.fifo_queue # <<>>
    THEN LET oldest_block == Head(lvl.fifo_queue) IN
         [lvl EXCEPT !.fifo_queue = Tail(@),
                     !.cache_blocks[oldest_block] = invalidate(@)]
    ELSE lvl

\* access_memory without "fifo_queue.push(block_index)".
access_memory_without_push(lvl, memory_address) ==
    LET block_index == calculate_block_index(lvl, memory_address)
        tag == extract_tag(lvl, memory_address)
    IN IF lvl.cache_blocks[block_index].valid
          /\ lvl.cache_blocks[block_index].tag = tag
       THEN [level |-> [lvl EXCEPT !.performance_metrics = record_hit(@)],
             hit |-> TRUE]
       ELSE LET missed == [lvl EXCEPT !.performance_metrics = record_miss(@)]
                evicted == IF missed.cache_blocks[block_index].valid
                           THEN evict_oldest_block(missed)
                           ELSE missed
            IN [level |-> [evicted EXCEPT
                              !.cache_blocks[block_index] =
                                  [valid |-> TRUE, tag |-> tag,
                                   data_address |-> memory_address]],
                hit |-> FALSE]

\* access_memory: the object after the call and the value returned.
access_memory(lvl, memory_address) ==
    LET block_index == calculate_block_index(lvl, memory_address)
        tag == extract_tag(lvl, memory_address)
    IN IF lvl.cache_blocks[block_index].valid
          /\ lvl.cache_blocks[block_index].tag = tag
       THEN [level |-> [lvl EXCEPT !.performance_metrics = record_hit(@)],
             hit |-> TRUE]
       ELSE LET missed == [lvl EXCEPT !.performance_metrics = record_miss(@)]
                evicted == IF missed.cache_blocks[block_index].valid
                           THEN evict_oldest_block(missed)
                           ELSE missed
            IN [level |-> [evicted EXCEPT
                              !.cache_blocks[block_index] =
                                  [valid |-> TRUE, tag |-> tag,
                                   data_address |-> memory_address],
                              !.fifo_queue = Append(@, block_index)],
                hit |-> FALSE]

flush_cache(lvl) ==
    [lvl EXCEPT !.cache_blocks = [i \in DOMAIN @ |-> invalidate(@[i])],
                !.fifo_queue = <<>>]

\* ---- one CacheLevel on its own ---------------------------------------

\* The configurations the constructor accepts.
LevelConfigurations ==
    {cfg \in (1..MaxCacheSize) \X (1..MaxBlockSize) :
        ~constructor_throws(cfg[1], cfg[2])}

\* The trace with one more entry appended, cut to its last three entries
\* (the longest pattern a property of the level looks back on).
Record(trace, entry) ==
    LET all == Append(trace, entry) IN
    IF Len(all) > 3 THEN SubSeq(all, Len(all) - 2, Len(all))
    ELSE all

\* The slot and the tag an address maps to in a direct-mapped cache of the
\* level's geometry.
SlotOf(lvl, a) == (a \div lvl.block_size_bytes) % lvl.number_of_blocks

TagOf(lvl, a) == a \div (lvl.block_size_bytes * lvl.number_of_blocks)

\* The reference cache: direct-mapped, no queue; a miss overwrites the block
\* at the accessed index and touches no other block.
reference_hit(lvl, blocks, a) ==
    blocks[SlotOf(lvl, a)].valid /\ blocks[SlotOf(lvl, a)].tag = TagOf(lvl, a)

reference_access(lvl, blocks, a) ==
    IF reference_hit(lvl, blocks, a) THEN blocks
    ELSE [blocks EXCEPT ![SlotOf(lvl, a)] =
              [valid |-> TRUE, tag |-> TagOf(lvl, a), data_address |-> a]]

LevelInit ==
    /\ AllocatorInit
    /\ HierarchyInit
    /\ CoalesceIdle
    /\ SessionIdle
    /\ \E cfg \in LevelConfigurations :
           /\ level = CacheLevel(cfg[1], cfg[2])
           /\ reference_blocks = CacheLevel(cfg[1], cfg[2]).cache_blocks
    /\ level_trace = <<>>
    /\ reference_trace = <<>>

LevelAccess(memory_address) ==
    LET result == access_memory(level, memory_address) IN
    /\ level.performance_metrics.total_accesses < MaxLevelAccesses
    /\ level' = result.level
    /\ level_trace' = Record(level_trace,
           [op |-> "access", arg |-> memory_address, ret |-> result.hit])
    /\ reference_blocks' = reference_access(level, reference_blocks, memory_address)
    /\ reference_trace' = Record(reference_trace,
           [op |-> "access", arg |-> memory_address,
            ret |-> reference_hit(level, reference_blocks, memory_address)])
    /\ UNCHANGED <<allocator_vars, hierarchy_vars, coalesce_vars, session_vars>>

LevelFlush ==
    /\ level' = flush_cache(level)
    /\ level_trace' = Record(level_trace, [op |-> "flush", arg |-> 0, ret |-> FALSE])
    /\ reference_blocks' = [i \in DOMAIN reference_blocks |-> CacheBlock]
    /\ reference_trace' = Record(reference_trace,
           [op |-> "flush", arg |-> 0, ret |-> FALSE])
    /\ UNCHANGED <<allocator_vars, hierarchy_vars, coalesce_vars, session_vars>>

LevelNext ==
    \/ \E memory_address \in Addresses : LevelAccess(memory_address)
    \/ LevelFlush

SpecLevel == LevelInit /\ [][LevelNext]_vars

\* ======================================================================
\* MultiLevelCacheSimulator (src/src/cache/cache_simulator.cpp)
\* ======================================================================

\* Accesses made on one pair of levels before it is rebuilt.
MaxHierarchyAccesses == 3

\* Arguments initialize_cache_hierarchy is called with: the cache sizes and
\* the block sizes, 0 included.
CacheSizes == 0..MaxCacheSize

BlockSizes == 0..MaxBlockSize

\* A pointer that was deleted and not reset.
dangling == [pointer |-> "dangling"]

\* Whether lines 131-151 apply delete to an object that is already deleted:
\* the two old objects are deleted first and the pointers keep their values;
\* when the first constructor throws, the handler deletes both old objects
\* again; when only the second throws, it deletes the old L2 object again.
deletes_twice(l1, l2, l1_throws, l2_throws) ==
    \/ l1_throws /\ (l1 # nullptr \/ l2 # nullptr)
    \/ ~l1_throws /\ l2_throws /\ l2 # nullptr

\* What a delete of an already deleted object can do in a build: the
\* allocator detects it and aborts the process, or execution continues.
DoubleDeleteOutcomes == {"abort", "continue"}

\* The body with a handler that leaves l1_cache as it is.
construct_both_keeps_l1(l1_size, l1_block_size, l2_size, l2_block_size) ==
    LET l1_throws == constructor_throws(l1_size, l1_block_size)
        l2_throws == constructor_throws(l2_size, l2_block_size)
    IN IF ~l1_throws /\ ~l2_throws
       THEN /\ l1_cache' = CacheLevel(l1_size, l1_block_size)
            /\ l2_cache' = CacheLevel(l2_size, l2_block_size)
            /\ cache_hierarchy_initialized' = TRUE
            /\ UNCHANGED <<process_state, double_deleted>>
       ELSE /\ l1_cache' = IF l1_throws THEN nullptr
                           ELSE CacheLevel(l1_size, l1_block_size)
            /\ l2_cache' = nullptr
            /\ cache_hierarchy_initialized' = FALSE
            /\ UNCHANGED <<process_state, double_deleted>>

\* The body of initialize_cache_hierarchy (lines 131-151).
construct_both(l1_size, l1_block_size, l2_size, l2_block_size) ==
    LET l1_throws == constructor_throws(l1_size, l1_block_size)
        l2_throws == constructor_throws(l2_size, l2_block_size)
    IN IF ~l1_throws /\ ~l2_throws
       THEN /\ l1_cache' = CacheLevel(l1_size, l1_block_size)
            /\ l2_cache' = CacheLevel(l2_size, l2_block_size)
            /\ cache_hierarchy_initialized' = TRUE
            /\ UNCHANGED <<process_state, double_deleted>>
       ELSE IF deletes_twice(l1_cache, l2_cache, l1_throws, l2_throws)
       THEN /\ double_deleted' = TRUE
            /\ \E outcome \in DoubleDeleteOutcomes :
                   IF outcome = "abort"
                   THEN /\ process_state' = "aborted"
                        /\ l1_cache' = dangling
                        /\ l2_cache' = dangling
                        /\ UNCHANGED cache_hierarchy_initialized
                   ELSE /\ l1_cache' = nullptr
                        /\ l2_cache' = nullptr
                        /\ cache_hierarchy_initialized' = FALSE
                        /\ UNCHANGED process_state
       ELSE /\ l1_cache' = nullptr
            /\ l2_cache' = nullptr
            /\ cache_hierarchy_initialized' = FALSE
            /\ UNCHANGED <<process_state, double_deleted>>

SpecHierarchyInit ==
    AllocatorInit /\ LevelIdle /\ HierarchyInit /\ CoalesceIdle /\ SessionIdle

initialize_cache_hierarchy(l1_size, l1_block_size, l2_size, l2_block_size) ==
    /\ process_state = "running"
    /\ construct_both(l1_size, l1_block_size, l2_size, l2_block_size)
    /\ hierarchy_call' = [op |-> "initialize",
                          arg |-> <<l1_size, l1_block_size, l2_size, l2_block_size>>,
                          ret |-> 0]
    /\ UNCHANGED <<allocator_vars, level_vars, coalesce_vars, session_vars>>

\* simulate_memory_access that queries L2 whatever L1 answers.
simulate_memory_access_always_l2(memory_address) ==
    /\ process_state = "running"
    /\ UNCHANGED <<cache_hierarchy_initialized, process_state, double_deleted>>
    /\ UNCHANGED <<allocator_vars, level_vars, coalesce_vars, session_vars>>
    /\ IF ~cache_hierarchy_initialized
       THEN /\ hierarchy_call' = [op |-> "access", arg |-> memory_address,
                                  ret |-> FALSE]
            /\ UNCHANGED <<l1_cache, l2_cache>>
       ELSE LET l1_result == access_memory(l1_cache, memory_address)
                l2_result == access_memory(l2_cache, memory_address)
            IN /\ l1_cache.performance_metrics.total_accesses < MaxHierarchyAccesses
               /\ l1_cache' = l1_result.level
               /\ l2_cache' = l2_result.level
               /\ hierarchy_call' = [op |-> "access", arg |-> memory_address,
                                     ret |-> l1_result.hit \/ l2_result.hit]

\* simulate_memory_access that returns true from the uninitialized branch.
simulate_memory_access_reports_hit(memory_address) ==
    /\ process_state = "running"
    /\ UNCHANGED <<cache_hierarchy_initialized, process_state, double_deleted>>
    /\ UNCHANGED <<allocator_vars, level_vars, coalesce_vars, session_vars>>
    /\ IF ~cache_hierarchy_initialized
       THEN /\ hierarchy_call' = [op |-> "access", arg |-> memory_address,
                                  ret |-> TRUE]
            /\ UNCHANGED <<l1_cache, l2_cache>>
       ELSE LET l1_result == access_memory(l1_cache, memory_address)
                l2_result == access_memory(l2_cache, memory_address)
            IN /\ l1_cache.performance_metrics.total_accesses < MaxHierarchyAccesses
               /\ l1_cache' = l1_result.level
               /\ IF l1_result.hit
                  THEN /\ UNCHANGED l2_cache
                       /\ hierarchy_call' = [op |-> "access",
                                             arg |-> memory_address, ret |-> TRUE]
                  ELSE /\ l2_cache' = l2_result.level
                       /\ hierarchy_call' = [op |-> "access",
                                             arg |-> memory_address,
                                             ret |-> l2_result.hit]

simulate_memory_access(memory_address) ==
    /\ process_state = "running"
    /\ UNCHANGED <<cache_hierarchy_initialized, process_state, double_deleted>>
    /\ UNCHANGED <<allocator_vars, level_vars, coalesce_vars, session_vars>>
    /\ IF ~cache_hierarchy_initialized
       THEN /\ hierarchy_call' = [op |-> "access", arg |-> memory_address,
                                  ret |-> FALSE]
            /\ UNCHANGED <<l1_cache, l2_cache>>
       ELSE LET l1_result == access_memory(l1_cache, memory_address)
                l2_result == access_memory(l2_cache, memory_address)
            IN /\ l1_cache.performance_metrics.total_accesses < MaxHierarchyAccesses
               /\ l1_cache' = l1_result.level
               /\ IF l1_result.hit
                  THEN /\ UNCHANGED l2_cache
                       /\ hierarchy_call' = [op |-> "access",
                                             arg |-> memory_address, ret |-> TRUE]
                  ELSE /\ l2_cache' = l2_result.level
                       /\ hierarchy_call' = [op |-> "access",
                                             arg |-> memory_address,
                                             ret |-> l2_result.hit]

flush_all_caches ==
    /\ process_state = "running"
    /\ hierarchy_call' = [op |-> "flush_all", arg |-> 0, ret |-> 0]
    /\ UNCHANGED <<cache_hierarchy_initialized, process_state, double_deleted>>
    /\ UNCHANGED <<allocator_vars, level_vars, coalesce_vars, session_vars>>
    /\ IF ~cache_hierarchy_initialized
       THEN UNCHANGED <<l1_cache, l2_cache>>
       ELSE /\ l1_cache' = flush_cache(l1_cache)
            /\ l2_cache' = flush_cache(l2_cache)

\* reset_cache_statistics that flushes the two levels and keeps their metrics.
reset_cache_statistics_flush_only ==
    /\ process_state = "running"
    /\ hierarchy_call' = [op |-> "reset_statistics", arg |-> 0, ret |-> 0]
    /\ UNCHANGED <<cache_hierarchy_initialized, process_state, double_deleted>>
    /\ UNCHANGED <<allocator_vars, level_vars, coalesce_vars, session_vars>>
    /\ IF cache_hierarchy_initialized
       THEN /\ l1_cache' = flush_cache(l1_cache)
            /\ l2_cache' = flush_cache(l2_cache)
       ELSE UNCHANGED <<l1_cache, l2_cache>>

reset_cache_statistics ==
    /\ process_state = "running"
    /\ hierarchy_call' = [op |-> "reset_statistics", arg |-> 0, ret |-> 0]
    /\ UNCHANGED <<allocator_vars, level_vars, coalesce_vars, session_vars>>
    /\ IF cache_hierarchy_initialized
       THEN construct_both(l1_cache.cache_size_bytes, l1_cache.block_size_bytes,
                           l2_cache.cache_size_bytes, l2_cache.block_size_bytes)
       ELSE UNCHANGED <<l1_cache, l2_cache, cache_hierarchy_initialized,
                        process_state, double_deleted>>

\* The pointer after "delete pointer": delete of a null pointer does nothing.
deleted(pointer) == IF pointer = nullptr THEN nullptr ELSE dangling

\* MultiLevelCacheSimulator::~MultiLevelCacheSimulator, run when main returns.
MultiLevelCacheSimulator_destructor ==
    /\ process_state = "running"
    /\ process_state' = "destroyed"
    /\ double_deleted' = (double_deleted \/ l1_cache = dangling \/ l2_cache = dangling)
    /\ l1_cache' = deleted(l1_cache)
    /\ l2_cache' = deleted(l2_cache)
    /\ hierarchy_call' = [op |-> "destroy", arg |-> 0, ret |-> 0]
    /\ UNCHANGED cache_hierarchy_initialized
    /\ UNCHANGED <<allocator_vars, level_vars, coalesce_vars, session_vars>>

HierarchyNext ==
    \/ \E l1_size \in CacheSizes, l1_block_size \in BlockSizes,
          l2_size \in CacheSizes, l2_block_size \in BlockSizes :
           initialize_cache_hierarchy(l1_size, l1_block_size, l2_size, l2_block_size)
    \/ \E memory_address \in Addresses : simulate_memory_access(memory_address)
    \/ flush_all_caches
    \/ reset_cache_statistics
    \/ MultiLevelCacheSimulator_destructor

SpecHierarchy == SpecHierarchyInit /\ [][HierarchyNext]_vars

\* ======================================================================
\* CommandLineProcessor::run_interactive_session
\* (src/src/command_processor.cpp)
\* ======================================================================

\* Lines std::cin holds when the session starts.
MaxLines == 3

\* A line is modelled by its first token, the command word: the empty line,
\* a line of blanks, the three words that end the session, a command of the
\* allocator and a command that prints.  What the handlers of the allocator
\* commands do to the allocator is the subject of Spec; no handler other than
\* handle_exit_command writes is_running, and none reads std::cin.
ExitCommands == {"quit", "exit", "bye"}

Lines == {"", " ", "alloc", "help"} \cup ExitCommands

RECURSIVE SequencesUpTo(_, _)
SequencesUpTo(S, n) ==
    IF n = 0 THEN {<<>>}
    ELSE LET shorter == SequencesUpTo(S, n - 1) IN
         shorter \cup {Append(q, x) : q \in shorter, x \in S}

\* The inputs: up to MaxLines lines, the last one with or without its
\* newline, then end-of-file.
SessionInit ==
    /\ AllocatorInit /\ LevelIdle /\ HierarchyInit /\ CoalesceIdle
    /\ is_running = FALSE
    /\ input_line = ""
    /\ unread_lines \in SequencesUpTo(Lines, MaxLines)
    /\ final_newline \in BOOLEAN
    /\ (unread_lines = <<>> => final_newline)
    /\ cin_good = TRUE
    /\ session_pc = "not_started"

\* is_running after process_single_command(command_line): the handlers catch
\* every std::exception and return; only the exit handler writes the flag.
running_after(running, command_line) ==
    IF command_line \in ExitCommands THEN FALSE ELSE running

\* Lines 9-10: the welcome message and "is_running = true".
run_interactive_session ==
    /\ session_pc = "not_started"
    /\ is_running' = TRUE
    /\ session_pc' = "test"
    /\ UNCHANGED <<input_line, unread_lines, final_newline, cin_good>>
    /\ UNCHANGED <<allocator_vars, level_vars, hierarchy_vars, coalesce_vars>>

\* "while (is_running)": into the body, or out of the function.
loop_test ==
    /\ session_pc = "test"
    /\ session_pc' = IF is_running THEN "getline" ELSE "returned"
    /\ UNCHANGED <<is_running, input_line, unread_lines, final_newline, cin_good>>
    /\ UNCHANGED <<allocator_vars, level_vars, hierarchy_vars, coalesce_vars>>

\* "std::getline(std::cin, input_line)".  On a stream that is not good() the
\* sentry fails and input_line keeps its value; on a good stream input_line
\* is erased and filled with the next line; reading at end-of-file, or reading
\* a last line that has no newline, sets eofbit and the stream is no longer
\* good().  The return value is not tested.
getline ==
    /\ session_pc = "getline"
    /\ session_pc' = "dispatch"
    /\ IF ~cin_good
       THEN UNCHANGED <<input_line, unread_lines, cin_good>>
       ELSE IF unread_lines = <<>>
       THEN /\ input_line' = ""
            /\ cin_good' = FALSE
            /\ UNCHANGED unread_lines
       ELSE /\ input_line' = Head(unread_lines)
            /\ unread_lines' = Tail(unread_lines)
            /\ cin_good' = ~(Tail(unread_lines) = <<>> /\ ~final_newline)
    /\ UNCHANGED <<is_running, final_newline>>
    /\ UNCHANGED <<allocator_vars, level_vars, hierarchy_vars, coalesce_vars>>

\* "if (!input_line.empty()) process_single_command(input_line);"
dispatch ==
    /\ session_pc = "dispatch"
    /\ session_pc' = "test"
    /\ is_running' = IF input_line # "" THEN running_after(is_running, input_line)
                     ELSE is_running
    /\ UNCHANGED <<input_line, unread_lines, final_newline, cin_good>>
    /\ UNCHANGED <<allocator_vars, level_vars, hierarchy_vars, coalesce_vars>>

SessionNext ==
    \/ run_interactive_session
    \/ loop_test
    \/ getline
    \/ dispatch

\* The session is one thread of sequential code: it keeps executing as long
\* as it has a next statement.
SpecSession == SessionInit /\ [][SessionNext]_vars /\ WF_vars(SessionNext)

\* ======================================================================
\* Properties of the allocator
\* ======================================================================

RECURSIVE SumSizes(_)
SumSizes(segs) ==
    IF segs = <<>> THEN 0 ELSE Head(segs).segment_size + SumSizes(Tail(segs))

\* Indices of the free segments that can hold a request of size r.
Qualifying(segs, r) ==
    {i \in 1..Len(segs) : segs[i].is_available /\ segs[i].segment_size >= r}

\* Index of the segment owned by pid, 0 when there is none.
IndexOwnedBy(segs, pid) ==
    IF \E i \in 1..Len(segs) : ~segs[i].is_available /\ segs[i].process_id = pid
    THEN CHOOSE i \in 1..Len(segs) :
             ~segs[i].is_available /\ segs[i].process_id = pid
    ELSE 0

AllocatedIndices(segs) == {i \in 1..Len(segs) : ~segs[i].is_available}

\* C1: after every operation the segment list partitions [0, capacity):
\* the first segment starts at 0, each base is the previous base + size,
\* every size is positive and the sizes sum to the pool capacity.
C1_PartitionsPool ==
    /\ heap_segments # <<>> => heap_segments[1].base_address = 0
    /\ \A i \in 1..(Len(heap_segments) - 1) :
           heap_segments[i + 1].base_address =
               heap_segments[i].base_address + heap_segments[i].segment_size
    /\ \A i \in 1..Len(heap_segments) : heap_segments[i].segment_size > 0
    /\ SumSizes(heap_segments) = total_memory_capacity

\* A pool cut into at least three segments by allocations, after a free.
C1_Witness ==
    /\ call.op = "deallocate" /\ call.ret = TRUE
    /\ Len(heap_segments) >= 3
    /\ AllocatedIndices(heap_segments) # {}

\* C2: after any allocator operation, deallocate included (successful or
\* not), no two consecutive segments are both free.
C2_NoAdjacentFree ==
    \A i \in 1..(Len(heap_segments) - 1) :
        ~(heap_segments[i].is_available /\ heap_segments[i + 1].is_available)

\* Three blocks were handed out and the last free merged everything back
\* into one segment.
C2_Witness ==
    /\ call.op = "deallocate" /\ call.ret = TRUE
    /\ Len(issued) >= 3
    /\ Len(heap_segments) = 1

\* The list obtained from segs by allocating r bytes to pid in segment k.
AllocatedIn(segs, k, r, pid) ==
    LET b == segs[k].base_address
        s == segs[k].segment_size
    IN SubSeq(segs, 1, k - 1)
       \o <<MemorySegment(b, r, FALSE, pid)>>
       \o (IF s > r THEN <<MemorySegment(b + r, s - r, TRUE, NoPid)>> ELSE <<>>)
       \o SubSeq(segs, k + 1, Len(segs))

\* C3: a successful allocate(r) turns the chosen free segment (b, s) into an
\* allocated segment (b, r), followed by a free segment (b + r, s - r) when
\* s > r and by nothing new when s = r; all other segments are unchanged.
C3_SplitInPlace ==
    [][(call'.op = "allocate" /\ call'.ret # -1) =>
         \E k \in Qualifying(heap_segments, call'.arg) :
             heap_segments' = AllocatedIn(heap_segments, k, call'.arg, call'.ret)]_vars

\* An exact fit into a hole between other segments: no segment was added.
C3_Witness ==
    /\ call.op = "allocate" /\ call.ret # -1
    /\ Len(heap_segments) = Len(before_alloc)
    /\ Len(heap_segments) >= 3

\* The index the strategy prescribes among the qualifying indices Q.
Smallest(segs, Q) ==
    {i \in Q : \A j \in Q : segs[i].segment_size <= segs[j].segment_size}

Largest(segs, Q) ==
    {i \in Q : \A j \in Q : segs[i].segment_size >= segs[j].segment_size}

LowestIndex(S) == CHOOSE i \in S : \A j \in S : i <= j

Prescribed(strategy, segs, r) ==
    LET Q == Qualifying(segs, r) IN
    CASE strategy = "FIRST_FIT" -> LowestIndex(Q)
      [] strategy = "BEST_FIT"  -> LowestIndex(Smallest(segs, Q))
      [] strategy = "WORST_FIT" -> LowestIndex(Largest(segs, Q))

\* C4: allocate(r) chooses, among the free segments of size >= r, the one of
\* lowest index under FirstFit, the one of minimum size (lowest index among
\* ties) under BestFit and the one of maximum size (lowest index among ties)
\* under WorstFit.
C4_StrategySelects ==
    [][(call'.op = "allocate" /\ call'.arg > 0
        /\ Qualifying(heap_segments, call'.arg) # {}) =>
         /\ call'.ret # -1
         /\ IndexOwnedBy(heap_segments', call'.ret) =
                Prescribed(current_strategy, heap_segments, call'.arg)]_vars

\* C5: between one initialize / reset and the next, the owner ids returned by
\* successful allocate calls are 1, 2, 3, ... in order, whatever deallocate
\* calls and failed allocations come in between.
C5_IdsInOrder ==
    \A i \in 1..Len(issued) : issued[i] = i

\* Three ids were issued with a failed allocation among the attempts, and a
\* block has been freed since.
C5_Witness ==
    /\ Len(issued) = 3
    /\ performance_stats.failed_allocations >= 1
    /\ call.op = "deallocate" /\ call.ret = TRUE

\* C6: a segment carries an owner id iff it is allocated, and no two
\* allocated segments carry the same owner id.
C6_OwnerIffAllocated ==
    /\ \A i \in 1..Len(heap_segments) :
           (heap_segments[i].process_id # NoPid) <=> ~heap_segments[i].is_available
    /\ \A i, j \in AllocatedIndices(heap_segments) :
           heap_segments[i].process_id = heap_segments[j].process_id => i = j

\* Two live allocations next to a segment that was freed.
C6_Witness ==
    /\ call.op = "deallocate" /\ call.ret = TRUE
    /\ Cardinality(AllocatedIndices(heap_segments)) >= 2

\* C7: allocate(r) with r > 0 fails iff no free segment has size >= r; a
\* failed allocate leaves the segment list and the owner-id counter
\* unchanged, adds one to attempts and to failures and leaves successes.
C7_FailsIffNoFit ==
    [][(call'.op = "allocate" /\ call'.arg > 0) =>
         /\ (call'.ret = -1) <=> (Qualifying(heap_segments, call'.arg) = {})
         /\ (call'.ret = -1) =>
              /\ heap_segments' = heap_segments
              /\ next_process_identifier' = next_process_identifier
              /\ performance_stats' =
                     [performance_stats EXCEPT
                         !.total_allocation_attempts = @ + 1,
                         !.failed_allocations = @ + 1]]_vars

\* C8: deallocate(id) for an id that owns no allocated segment reports
\* not-found and changes neither the segment list, the owner-id counter, the
\* strategy, the capacity nor the statistics; deallocating the same id twice
\* in a row succeeds once and then reports not-found.
C8_UnknownIdNoChange ==
    [][/\ (call'.op = "deallocate"
           /\ IndexOwnedBy(heap_segments, call'.arg) = 0) =>
             /\ call'.ret = FALSE
             /\ UNCHANGED <<heap_segments, total_memory_capacity,
                            next_process_identifier, current_strategy,
                            performance_stats>>
       /\ (call'.op = "deallocate" /\ prev_call'.op = "deallocate"
           /\ prev_call'.ret = TRUE /\ prev_call'.arg = call'.arg) =>
             call'.ret = FALSE]_vars

\* The same id freed twice in a row, with other blocks still allocated.
C8_Witness ==
    /\ prev_call.op = "deallocate" /\ prev_call.ret = TRUE
    /\ call.op = "deallocate" /\ call.arg = prev_call.arg /\ call.ret = FALSE
    /\ AllocatedIndices(heap_segments) # {}

\* C9: allocate(0) returns -1, leaves the segment list and the owner-id
\* counter unchanged and adds one to attempts and to failures.
C9_ZeroRejected ==
    [][(call'.op = "allocate" /\ call'.arg = 0) =>
         /\ call'.ret = -1
         /\ heap_segments' = heap_segments
         /\ next_process_identifier' = next_process_identifier
         /\ performance_stats' =
                [performance_stats EXCEPT
                    !.total_allocation_attempts = @ + 1,
                    !.failed_allocations = @ + 1]]_vars

\* allocate(0) was rejected although a free segment was there to take it.
C9_Witness ==
    /\ call.op = "allocate" /\ call.arg = 0 /\ call.ret = -1
    /\ \E i \in 1..Len(heap_segments) : heap_segments[i].is_available
    /\ performance_stats.failed_allocations >= 1

\* C10: a successful allocate returning id k followed immediately by
\* deallocate(k) leaves the segment list equal to the list before the
\* allocate, under every strategy.
C10_RoundTrip ==
    (/\ prev_call.op = "allocate" /\ prev_call.ret # -1
     /\ call.op = "deallocate" /\ call.arg = prev_call.ret) =>
        /\ call.ret = TRUE
        /\ heap_segments = before_alloc

\* A round trip through a hole of a fragmented pool under BestFit.
C10_Witness ==
    /\ prev_call.op = "allocate" /\ prev_call.ret # -1
    /\ call.op = "deallocate" /\ call.arg = prev_call.ret
    /\ current_strategy = "BEST_FIT"
    /\ Len(heap_segments) >= 3

\* C11: initialize(n) from any allocator state leaves exactly one free
\* segment [0, n), capacity n, the owner-id counter at 1, all statistics at 0
\* and the strategy as it was; reset() empties the segment list, sets the
\* capacity to 0 and restores FirstFit.
C11_InitializeAndReset ==
    [][/\ (call'.op = "initialize") =>
             /\ heap_segments' = <<MemorySegment(0, call'.arg, TRUE, NoPid)>>
             /\ total_memory_capacity' = call'.arg
             /\ next_process_identifier' = 1
             /\ performance_stats' =
                    [total_allocation_attempts |-> 0, successful_allocations |-> 0,
                     failed_allocations |-> 0]
             /\ current_strategy' = current_strategy
       /\ (call'.op = "reset") =>
             /\ heap_segments' = <<>>
             /\ total_memory_capacity' = 0
             /\ current_strategy' = "FIRST_FIT"]_vars

\* A pool re-initialized right after a successful allocation, with a
\* strategy other than the default still in force.
C11_Witness ==
    /\ call.op = "initialize"
    /\ prev_call.op = "allocate" /\ prev_call.ret # -1
    /\ current_strategy = "WORST_FIT"
    /\ Len(heap_segments) = 1

\* The counters and the owner-id counter agree.
CountersAgree(stats, identifier) ==
    /\ stats.total_allocation_attempts =
           stats.successful_allocations + stats.failed_allocations
    /\ identifier = stats.successful_allocations + 1

\* C26: in every reachable allocator state attempts = successes + failures
\* and the next owner id equals successes + 1; each allocate call increases
\* attempts by exactly one, deallocate and set_strategy change no counter,
\* and a counter decreases only through initialize or reset.
C26_Counters ==
    /\ CountersAgree(performance_stats, next_process_identifier)
    /\ [][/\ CountersAgree(performance_stats', next_process_identifier')
          /\ (call'.op = "allocate") =>
                performance_stats'.total_allocation_attempts =
                    performance_stats.total_allocation_attempts + 1
          /\ (call'.op \in {"deallocate", "set_strategy"}) =>
                performance_stats' = performance_stats
          /\ (\/ performance_stats'.total_allocation_attempts <
                     performance_stats.total_allocation_attempts
              \/ performance_stats'.successful_allocations <
                     performance_stats.successful_allocations
              \/ performance_stats'.failed_allocations <
                     performance_stats.failed_allocations) =>
                call'.op \in {"initialize", "reset"}]_vars

\* Successes and failures have both been counted, and a deallocate and a
\* change of strategy have been made since.
C26_Witness ==
    /\ call.op = "set_strategy" /\ prev_call.op = "deallocate"
    /\ performance_stats.successful_allocations >= 2
    /\ performance_stats.failed_allocations >= 1

\* ======================================================================
\* Properties of the coalescing loop (SpecCoalesce)
\* ======================================================================

\* The step is a loop iteration that finds the pair at the loop index free.
MergeStep ==
    /\ deallocate_pc = "merging" /\ deallocate_pc' = "merging"
    /\ heap_segments[merge_index + 1].is_available
    /\ heap_segments[merge_index + 2].is_available

\* C21: coalescing inside deallocate always terminates, and when it
\* terminates no adjacent free pair remains; each merge removes exactly one
\* segment, extends the first segment of the pair by the removed segment's
\* size, and leaves the total of all sizes unchanged.
C21_CoalescingTerminates ==
    /\ [][MergeStep =>
            LET k == merge_index + 1 IN
            /\ Len(heap_segments') = Len(heap_segments) - 1
            /\ heap_segments'[k].segment_size =
                   heap_segments[k].segment_size + heap_segments[k + 1].segment_size
            /\ heap_segments'[k].base_address = heap_segments[k].base_address
            /\ \A j \in 1..(k - 1) : heap_segments'[j] = heap_segments[j]
            /\ \A j \in (k + 2)..Len(heap_segments) :
                   heap_segments'[j - 1] = heap_segments[j]
            /\ SumSizes(heap_segments') = SumSizes(heap_segments)]_vars
    /\ [][(deallocate_pc = "merging" /\ deallocate_pc' = "idle") =>
            \A j \in 1..(Len(heap_segments') - 1) :
                ~(heap_segments'[j].is_available
                  /\ heap_segments'[j + 1].is_available)]_vars
    /\ (deallocate_pc = "merging") ~> (deallocate_pc = "idle")

\* The loop has been entered with the freed segment between two free
\* segments: the same index is merged twice.
C21_Witness ==
    /\ deallocate_pc = "merging" /\ merge_index = 0
    /\ Len(heap_segments) = 3
    /\ \A j \in 1..3 : heap_segments[j].is_available

\* ======================================================================
\* Properties of one CacheLevel (SpecLevel)
\* ======================================================================

Last(trace) == trace[Len(trace)]

\* The entry k places before the last one.
Back(trace, k) == trace[Len(trace) - k]

\* The valid (index, tag) entries of a block array.
ValidEntries(blocks) ==
    {<<i, blocks[i].tag>> : i \in {j \in DOMAIN blocks : blocks[j].valid}}

\* C12: when access evicts (a miss on a slot whose block is valid) the index
\* popped from the FIFO list is the index of the slot being overwritten, and
\* no access invalidates a block at an index other than the one the accessed
\* address maps to.
C12_EvictsOwnSlot ==
    [][(level_trace' # <<>> /\ Last(level_trace').op = "access") =>
         LET a == Last(level_trace').arg
             slot == SlotOf(level, a)
         IN /\ (~Last(level_trace').ret /\ level.cache_blocks[slot].valid
                /\ level.fifo_queue # <<>>) =>
                   Head(level.fifo_queue) = slot
            /\ \A j \in DOMAIN level.cache_blocks :
                   (j # slot /\ level.cache_blocks[j].valid) =>
                       level'.cache_blocks[j].valid]_vars

\* C22: in every reachable state of a CacheLevel the FIFO list holds exactly
\* one entry per valid block: every entry is the index of a valid block, no
\* index occurs twice, the length of the list is the number of valid blocks
\* and it never exceeds the block count.
C22_QueueMatchesValid ==
    LET q == level.fifo_queue
        blocks == level.cache_blocks
    IN /\ \A k \in 1..Len(q) : blocks[q[k]].valid
       /\ \A k, l \in 1..Len(q) : q[k] = q[l] => k = l
       /\ Len(q) = Cardinality({i \in DOMAIN blocks : blocks[i].valid})
       /\ Len(q) <= level.number_of_blocks

\* C13: access(a) followed immediately by access(a') in the same block makes
\* the second access a hit; access(a), access(b) with the same index and a
\* different tag, access(a) makes the second and the third access misses.
C13_HitThenConflict ==
    /\ (Len(level_trace) >= 2
        /\ Last(level_trace).op = "access" /\ Back(level_trace, 1).op = "access"
        /\ Last(level_trace).arg \div level.block_size_bytes =
               Back(level_trace, 1).arg \div level.block_size_bytes) =>
          Last(level_trace).ret
    /\ (Len(level_trace) >= 3
        /\ Last(level_trace).op = "access" /\ Back(level_trace, 1).op = "access"
        /\ Back(level_trace, 2).op = "access"
        /\ Last(level_trace).arg = Back(level_trace, 2).arg
        /\ SlotOf(level, Back(level_trace, 1).arg) = SlotOf(level, Last(level_trace).arg)
        /\ TagOf(level, Back(level_trace, 1).arg) # TagOf(level, Last(level_trace).arg)) =>
          (~Back(level_trace, 1).ret /\ ~Last(level_trace).ret)

\* The conflict pattern a, b, a in a cache of several blocks of several
\* bytes, a first loaded by the first of the three accesses.
C13_Witness ==
    /\ Len(level_trace) = 3
    /\ Last(level_trace).op = "access" /\ Back(level_trace, 1).op = "access"
    /\ Back(level_trace, 2).op = "access"
    /\ Last(level_trace).arg = Back(level_trace, 2).arg
    /\ SlotOf(level, Back(level_trace, 1).arg) = SlotOf(level, Last(level_trace).arg)
    /\ TagOf(level, Back(level_trace, 1).arg) # TagOf(level, Last(level_trace).arg)
    /\ level.number_of_blocks = 2 /\ level.block_size_bytes = 2
    /\ level.performance_metrics.cache_misses >= 3

\* C19: flush leaves every block invalid with tag 0 and stored address 0 and
\* the FIFO list empty, and leaves the three counters unchanged; a flush
\* right after a flush changes nothing; the first access after a flush is a
\* miss.
C19_Flush ==
    [][/\ (level_trace' # <<>> /\ Last(level_trace').op = "flush") =>
             /\ \A i \in DOMAIN level'.cache_blocks :
                    level'.cache_blocks[i] =
                        [valid |-> FALSE, tag |-> 0, data_address |-> 0]
             /\ DOMAIN level'.cache_blocks = DOMAIN level.cache_blocks
             /\ level'.fifo_queue = <<>>
             /\ level'.performance_metrics = level.performance_metrics
             /\ (level_trace # <<>> /\ Last(level_trace).op = "flush") =>
                    level' = level
       /\ (Len(level_trace') >= 2 /\ Last(level_trace').op = "access"
           /\ Back(level_trace', 1).op = "flush") =>
             ~Last(level_trace').ret]_vars

\* An address that was loaded, flushed away, and missed on the next access.
C19_Witness ==
    /\ Len(level_trace) = 3
    /\ Back(level_trace, 2).op = "access"
    /\ Back(level_trace, 1).op = "flush"
    /\ Last(level_trace).op = "access"
    /\ Last(level_trace).arg = Back(level_trace, 2).arg
    /\ Last(level_trace).arg > 0
    /\ ~Last(level_trace).ret
    /\ level.performance_metrics.total_accesses >= 3

\* C20: for every sequence of access and flush operations the hit / miss
\* result of each access and the set of valid (index, tag) entries equal
\* those of the reference direct-mapped cache without a queue.
C20_QueueRedundant ==
    /\ level_trace # <<>> => Last(level_trace).ret = Last(reference_trace).ret
    /\ ValidEntries(level.cache_blocks) = ValidEntries(reference_blocks)

\* ======================================================================
\* Properties of the cache hierarchy (SpecHierarchy)
\* ======================================================================

\* The step is a simulate_memory_access call on an initialized hierarchy.
AccessStep == hierarchy_call'.op = "access" /\ cache_hierarchy_initialized

L1Hits ==
    l1_cache'.performance_metrics.cache_hits =
        l1_cache.performance_metrics.cache_hits + 1

L1Misses ==
    l1_cache'.performance_metrics.cache_misses =
        l1_cache.performance_metrics.cache_misses + 1

L2Hits ==
    l2_cache'.performance_metrics.cache_hits =
        l2_cache.performance_metrics.cache_hits + 1

\* C14: access queries L1 first and, when L1 hits, returns hit without
\* touching L2: L2's blocks, FIFO list and metrics are as before.
C14_L1HitLeavesL2 ==
    [][AccessStep =>
         /\ l1_cache'.performance_metrics.total_accesses =
                l1_cache.performance_metrics.total_accesses + 1
         /\ L1Hits => (hierarchy_call'.ret = TRUE /\ l2_cache' = l2_cache)]_vars

\* An L1 hit in a hierarchy whose L2 holds blocks from earlier L1 misses.
C14_Witness ==
    /\ hierarchy_call.op = "access" /\ hierarchy_call.ret = TRUE
    /\ cache_hierarchy_initialized /\ process_state = "running"
    /\ l1_cache.performance_metrics.cache_hits >= 1
    /\ l2_cache.performance_metrics.cache_hits = 0
    /\ l2_cache.fifo_queue # <<>>

\* C15: when an access misses in L1 and hits in L2, L1's block state (valid
\* bits, tags, stored addresses, FIFO list) is the same after the access as
\* before it.
C15_NoPromotion ==
    [][(AccessStep /\ L1Misses /\ L2Hits) =>
         /\ l1_cache'.cache_blocks = l1_cache.cache_blocks
         /\ l1_cache'.fifo_queue = l1_cache.fifo_queue]_vars

\* C15 as amended: when an access misses in L1 and hits in L2, L1 has loaded
\* the block on its own miss (the L1 block at the accessed index is valid and
\* holds the tag and the address of the access, and that index is the newest
\* entry of L1's FIFO list); it is L2's block state and FIFO list that the
\* hit leaves unchanged.
C15_L1LoadsOnItsMiss ==
    [][(AccessStep /\ L1Misses /\ L2Hits) =>
         LET a == hierarchy_call'.arg
             slot == SlotOf(l1_cache, a)
         IN /\ l1_cache'.cache_blocks[slot] =
                   [valid |-> TRUE, tag |-> TagOf(l1_cache, a), data_address |-> a]
            /\ l1_cache'.fifo_queue # <<>>
            /\ l1_cache'.fifo_queue[Len(l1_cache'.fifo_queue)] = slot
            /\ l2_cache'.cache_blocks = l2_cache.cache_blocks
            /\ l2_cache'.fifo_queue = l2_cache.fifo_queue]_vars

\* An access that missed in L1 every time so far and has just hit in L2.
C15_Witness ==
    /\ hierarchy_call.op = "access" /\ hierarchy_call.ret = TRUE
    /\ cache_hierarchy_initialized /\ process_state = "running"
    /\ l1_cache.performance_metrics.cache_hits = 0
    /\ l2_cache.performance_metrics.cache_hits = 1
    /\ l1_cache.cache_blocks[SlotOf(l1_cache, hierarchy_call.arg)].valid

IsLevel(pointer) == pointer # nullptr /\ pointer # dangling

\* C16: after initialize returns, on a fresh or an initialized hierarchy,
\* either both levels exist and initialized = true, or both levels are
\* discarded and initialized = false; never one level only, never
\* initialized = true with a level missing.
C16_BothOrNeither ==
    process_state = "running" =>
        \/ cache_hierarchy_initialized /\ IsLevel(l1_cache) /\ IsLevel(l2_cache)
        \/ ~cache_hierarchy_initialized /\ l1_cache = nullptr /\ l2_cache = nullptr

\* initialize has returned from a call whose L1 arguments are accepted and
\* whose L2 arguments are rejected.
C16_Witness ==
    /\ hierarchy_call.op = "initialize" /\ process_state = "running"
    /\ ~constructor_throws(hierarchy_call.arg[1], hierarchy_call.arg[2])
    /\ constructor_throws(hierarchy_call.arg[3], hierarchy_call.arg[4])
    /\ ~cache_hierarchy_initialized

\* C17: a configuration error passed to initialize is rejected before any
\* state mutation: on an initialized hierarchy the existing levels, their
\* contents and metrics and the initialized flag are unchanged.
C17_RejectedBeforeMutation ==
    [][(hierarchy_call'.op = "initialize" /\ cache_hierarchy_initialized
        /\ (\/ constructor_throws(hierarchy_call'.arg[1], hierarchy_call'.arg[2])
            \/ constructor_throws(hierarchy_call'.arg[3], hierarchy_call'.arg[4]))) =>
         /\ l1_cache' = l1_cache
         /\ l2_cache' = l2_cache
         /\ cache_hierarchy_initialized' = cache_hierarchy_initialized]_vars

\* C18: while the hierarchy is uninitialized, access returns false and makes
\* no access on either level, flush_all and reset_statistics do nothing, and
\* the hierarchy stays uninitialized.
C18_UninitializedNoOp ==
    [][(~cache_hierarchy_initialized
        /\ hierarchy_call'.op \in {"access", "flush_all", "reset_statistics"}) =>
         /\ hierarchy_call'.op = "access" => hierarchy_call'.ret = FALSE
         /\ l1_cache' = l1_cache
         /\ l2_cache' = l2_cache
         /\ cache_hierarchy_initialized' = FALSE
         /\ process_state' = process_state]_vars

\* An access made on a hierarchy that has no levels.
C18_Witness ==
    /\ hierarchy_call.op = "access" /\ hierarchy_call.ret = FALSE
    /\ ~cache_hierarchy_initialized /\ process_state = "running"
    /\ l1_cache = nullptr /\ l2_cache = nullptr

\* The hierarchy holds its two levels and the process runs.
Usable == cache_hierarchy_initialized /\ process_state = "running"

\* C23: in every reachable state of an initialized hierarchy each level has
\* total = hits + misses, L2's total accesses equal L1's misses, and so
\* L1.hits + L2.hits <= L1.total: the combined hit ratio
\* 100*L1_hits/L1_total + 100*L2_hits/L1_total never exceeds 100; flush_all
\* and reset_statistics keep this.
C23_MetricsConsistent ==
    Usable =>
        LET m1 == l1_cache.performance_metrics
            m2 == l2_cache.performance_metrics
        IN /\ m1.total_accesses = m1.cache_hits + m1.cache_misses
           /\ m2.total_accesses = m2.cache_hits + m2.cache_misses
           /\ m2.total_accesses = m1.cache_misses
           /\ m1.cache_hits + m2.cache_hits <= m1.total_accesses
           /\ 100 * m1.cache_hits + 100 * m2.cache_hits <= 100 * m1.total_accesses

\* flush_all has been called on a hierarchy that counted L1 misses, L2
\* misses and an L2 hit.
C23_Witness ==
    /\ Usable /\ hierarchy_call.op = "flush_all"
    /\ l1_cache.performance_metrics.cache_misses >= 2
    /\ l2_cache.performance_metrics.cache_hits >= 1
    /\ l2_cache.performance_metrics.cache_misses >= 1

\* Whether an access to memory_address would hit in the level.
would_hit(lvl, memory_address) == access_memory(lvl, memory_address).hit

\* C24: the hierarchy is inclusive: in every reachable state of an
\* initialized hierarchy, for every configuration of the two levels, any
\* block that would hit in L1 would also hit in L2.
C24_Inclusive ==
    Usable =>
        \A memory_address \in Addresses :
            would_hit(l1_cache, memory_address) => would_hit(l2_cache, memory_address)

\* The counters, blocks and FIFO list of a level as its constructor leaves
\* them.
Fresh(lvl) ==
    /\ lvl.performance_metrics =
           [total_accesses |-> 0, cache_hits |-> 0, cache_misses |-> 0]
    /\ \A i \in DOMAIN lvl.cache_blocks : ~lvl.cache_blocks[i].valid
    /\ lvl.fifo_queue = <<>>

SameGeometry(new, old) ==
    /\ new.cache_size_bytes = old.cache_size_bytes
    /\ new.block_size_bytes = old.block_size_bytes
    /\ new.number_of_blocks = old.number_of_blocks
    /\ DOMAIN new.cache_blocks = DOMAIN old.cache_blocks

\* C25: reset_statistics on an initialized hierarchy rebuilds both levels
\* with the capacity and the block size they had, leaves the hierarchy
\* initialized, and leaves every counter of both levels 0, every block
\* invalid and both FIFO lists empty; flush_all leaves all counters
\* unchanged.
C25_ResetRebuilds ==
    [][/\ (hierarchy_call'.op = "reset_statistics" /\ Usable) =>
             /\ cache_hierarchy_initialized' /\ process_state' = "running"
             /\ IsLevel(l1_cache') /\ IsLevel(l2_cache')
             /\ SameGeometry(l1_cache', l1_cache) /\ SameGeometry(l2_cache', l2_cache)
             /\ Fresh(l1_cache') /\ Fresh(l2_cache')
       /\ (hierarchy_call'.op = "flush_all" /\ Usable) =>
             /\ l1_cache'.performance_metrics = l1_cache.performance_metrics
             /\ l2_cache'.performance_metrics = l2_cache.performance_metrics]_vars

\* reset_statistics has returned on a hierarchy whose two levels differ in
\* capacity and whose L1 capacity is no multiple of its block size.
C25_Witness ==
    /\ Usable /\ hierarchy_call.op = "reset_statistics"
    /\ l1_cache.cache_size_bytes = 3 /\ l1_cache.block_size_bytes = 2
    /\ l2_cache.cache_size_bytes = 4 /\ l2_cache.block_size_bytes = 2

\* C27: across any sequence of initialize calls, reset_statistics calls and
\* destruction every CacheLevel object is released exactly once: no level is
\* deleted twice, none is left alive by the destructor, and no configuration
\* error crashes the process.
C27_ReleasedOnce ==
    /\ ~double_deleted
    /\ process_state # "aborted"
    /\ process_state = "destroyed" => (~IsLevel(l1_cache) /\ ~IsLevel(l2_cache))

\* ======================================================================
\* Properties of the interactive session (SpecSession)
\* ======================================================================

\* C28: the interactive session loop terminates: run_interactive_session
\* returns after an exit / quit / bye command is processed, no command being
\* dispatched after it, and it also returns when the input reaches
\* end-of-file or fails without an exit command.
C28_SessionTerminates ==
    /\ [][(session_pc = "dispatch" /\ input_line # "") => is_running]_vars
    /\ [][(session_pc = "test" /\ ~is_running) => session_pc' = "returned"]_vars
    /\ <>(session_pc = "returned")

====
